---- MODULE Spec2Model ----
(***************************************************************************)
(* Model of aria/parser/framework/elements/operation.py: the operation /   *)
(* workflow resolution engine (process_operation,                          *)
(* process_interface_operations) and the field validators of an operation  *)
(* declaration.                                                            *)
(*                                                                         *)
(* Conventions.  A Python string is a sequence of one-character (or, for   *)
(* fixed literals that are never scanned, one-token) strings, so that      *)
(* startswith, slicing and concatenation are computed on the sequence.     *)
(* An optional value is None == <<>> or Some(v) == <<v>>.  A Python dict    *)
(* is a function whose DOMAIN is its key set.  Mutable dicts live in       *)
(* `heap', a sequence of dicts addressed by index, so that aliasing and    *)
(* copying are observable.                                                 *)
(***************************************************************************)
EXTENDS Integers, Sequences, FiniteSets, TLC

VARIABLES
    pc,         \* "ready" | "loop" | "done"
    call,       \* the entry point under execution and its arguments
    plugins,    \* the plugin registry: plugin name -> dict
    resources,  \* the URIs for which uri_exists answers true
    heap,       \* the payload dict objects, addressed by index
    idx,        \* process_interface_operations: next item of interface.items()
    acc,        \* process_interface_operations: the list built so far
    result      \* the outcome of the call: a return value or a raised exception

vars == <<pc, call, plugins, resources, heap, idx, acc, result>>

----------------------------------------------------------------------------
(* Bounds *)

MaxLen == 5         \* longest mapping string enumerated
MaxOps == 2         \* most operations in an interface
MaxRetry == 2       \* largest retry value enumerated

----------------------------------------------------------------------------
(* Python values *)

None == <<>>
Some(v) == <<v>>

\* truthiness of an optional string: None and '' are both false
StrTruthy(o) == o /= None /\ o[1] /= <<>>

EmptyDict == [k \in {} |-> <<>>]

DictPut(d, k, v) == [x \in (DOMAIN d) \cup {k} |-> IF x = k THEN v ELSE d[x]]

\* str.startswith
StartsWith(s, p) == Len(s) >= Len(p) /\ SubSeq(s, 1, Len(p)) = p

\* str.endswith
EndsWith(s, p) == Len(s) >= Len(p) /\ SubSeq(s, Len(s) - Len(p) + 1, Len(s)) = p

\* s[n:]
SliceFrom(s, n) == SubSeq(s, n + 1, Len(s))

\* `p in s' for strings
Contains(s, p) == \E i \in 0..(Len(s) - Len(p)) : SubSeq(s, i + 1, i + Len(p)) = p

----------------------------------------------------------------------------
(* constants.* *)

LOCAL_AGENT == <<"local_agent">>
SCRIPT_PLUGIN_NAME == <<"s", "c", "r", "i", "p", "t">>
SCRIPT_PATH_PROPERTY == "script_path"
SCRIPT_PLUGIN_RUN_TASK == <<"script_runner.tasks.run">>
SCRIPT_PLUGIN_EXECUTE_WORKFLOW_TASK == <<"script_runner.tasks.execute_workflow">>

----------------------------------------------------------------------------
(* Exceptions *)

DSLParsingLogicException(code, message) ==
    [kind |-> "DSLParsingLogicException", code |-> code, message |-> message]

RuntimeError(message) == [kind |-> "RuntimeError", message |-> message]

ValueError(message) == [kind |-> "ValueError", message |-> message]

Return(v) == [tag |-> "return", value |-> v]
Raise(e) == [tag |-> "raise", exc |-> e]
NoResult == [tag |-> "none"]

----------------------------------------------------------------------------
(* Field validators *)

ERROR_CODE_DSL_DEFINITIONS_VERSION_MISMATCH == 29

\* tuple comparison version < min_version on (major, minor)
VersionLess(v, m) == v[1] < m[1] \/ (v[1] = m[1] /\ v[2] < m[2])

\* Element.validate_version
validate_version(initial_value, version, min_version) ==
    IF initial_value = None THEN Return(None)
    ELSE IF VersionLess(version, min_version)
    THEN Raise(DSLParsingLogicException(
             ERROR_CODE_DSL_DEFINITIONS_VERSION_MISMATCH,
             <<"Element not supported in version ">>
                 \o <<ToString(version[1]), ".", ToString(version[2])>>))
    ELSE Return(None)

valid_executors == {LOCAL_AGENT}

\* OperationExecutor.validate
OperationExecutor_validate(initial_value, interface_name, operation_name) ==
    IF initial_value = None THEN Return(None)
    ELSE IF initial_value[1] \notin valid_executors
    THEN Raise(DSLParsingLogicException(
             28,
             <<"Operation '">> \o interface_name \o <<".">> \o operation_name
                 \o <<"' has an illegal executor value '">> \o initial_value[1]
                 \o <<"'. valid values are ", "('local_agent',)">>))
    ELSE Return(None)

\* variant of OperationMaxRetries.validate: the version is checked whatever
\* the gate flag says
OperationMaxRetries_validate_ungated(name, initial_value, version, validate_version_flag) ==
    LET value == initial_value
        gate == validate_version(initial_value, version, <<1, 1>>)
    IN  IF value = None THEN Return(None)
        ELSE IF gate.tag = "raise" THEN gate
        ELSE IF value[1] < -1
        THEN Raise(ValueError(
                 <<"'">> \o name \o <<"' value must be either -1 to specify ",
                   "unlimited retries or a non negative number but got ",
                   ToString(value[1]), ".">>))
        ELSE Return(None)

\* OperationMaxRetries.validate
OperationMaxRetries_validate(name, initial_value, version, validate_version_flag) ==
    LET value == initial_value
        gate == IF validate_version_flag
                THEN validate_version(initial_value, version, <<1, 1>>)
                ELSE Return(None)
    IN  IF value = None THEN Return(None)
        ELSE IF gate.tag = "raise" THEN gate
        ELSE IF value[1] < -1
        THEN Raise(ValueError(
                 <<"'">> \o name \o <<"' value must be either -1 to specify ",
                   "unlimited retries or a non negative number but got ",
                   ToString(value[1]), ".">>))
        ELSE Return(None)

\* variant of OperationRetryInterval.validate: the bound error is raised as
\* a document error
OperationRetryInterval_validate_coded(name, initial_value, version, validate_version_flag) ==
    LET value == initial_value
        gate == IF validate_version_flag
                THEN validate_version(initial_value, version, <<1, 1>>)
                ELSE Return(None)
    IN  IF value = None THEN Return(None)
        ELSE IF gate.tag = "raise" THEN gate
        ELSE IF value /= None /\ value[1] < 0
        THEN Raise(DSLParsingLogicException(
                 1,
                 <<"'">> \o name \o <<"' value must be a non negative number but ",
                   "got ", ToString(value[1]), ".">>))
        ELSE Return(None)

\* OperationRetryInterval.validate
OperationRetryInterval_validate(name, initial_value, version, validate_version_flag) ==
    LET value == initial_value
        gate == IF validate_version_flag
                THEN validate_version(initial_value, version, <<1, 1>>)
                ELSE Return(None)
    IN  IF value = None THEN Return(None)
        ELSE IF gate.tag = "raise" THEN gate
        ELSE IF value /= None /\ value[1] < 0
        THEN Raise(ValueError(
                 <<"'">> \o name \o <<"' value must be a non negative number but ",
                   "got ", ToString(value[1]), ".">>))
        ELSE Return(None)

----------------------------------------------------------------------------
(* Resolution engine *)

\* dict.get(key)
Get(d, k) == IF k \in DOMAIN d THEN d[k] ELSE None

\* uri_exists
uri_exists(uri) == uri \in resources

\* variant of _resource_exists: the resource name is probed without the base
_resource_exists_no_base(resource_base, resource_name) ==
    uri_exists(resource_name)

\* _resource_exists
_resource_exists(resource_base, resource_name) ==
    uri_exists(resource_base \o <<"/">> \o resource_name)

\* _operation
_operation(name, plugin_name, operation_mapping, operation_inputs, executor, max_retries, retry_interval) ==
    [name |-> name,
     plugin |-> plugin_name,
     operation |-> operation_mapping,
     executor |-> executor,
     inputs |-> operation_inputs,
     has_intrinsic_functions |-> FALSE,
     max_retries |-> max_retries,
     retry_interval |-> retry_interval]

\* _workflow_operation
_workflow_operation(plugin_name, workflow_mapping, workflow_parameters) ==
    [plugin |-> plugin_name,
     operation |-> workflow_mapping,
     parameters |-> workflow_parameters]

\* a new dict object: the heap with the object added, and its reference
Alloc(h, d) == [heap |-> Append(h, d), ref |-> Some(Len(h) + 1)]

\* variant of the copy: the same object is handed back
DeepCopyAlias(h, ref) == [heap |-> h, ref |-> ref]

\* copy.deepcopy of a dict object (dict values are immutable here)
DeepCopy(h, ref) == Alloc(h, h[ref[1]])

\* truthiness of a payload reference: None and {} are both false
DictTruthy(h, ref) == ref /= None /\ DOMAIN h[ref[1]] /= {}

\* plugins.keys(): the names in the registry's iteration order
Keys(reg) ==
    LET n == Cardinality(DOMAIN reg)
    IN  CHOOSE s \in [1..n -> DOMAIN reg] : \A i, j \in 1..n : i /= j => s[i] /= s[j]

\* variant of the comprehension: the scan stops at the first match
RECURSIVE CandidatesFirstOnly(_, _)
CandidatesFirstOnly(ks, operation_mapping) ==
    IF ks = <<>> THEN <<>>
    ELSE IF StartsWith(operation_mapping, Head(ks) \o <<".">>)
    THEN <<Head(ks)>>
    ELSE CandidatesFirstOnly(Tail(ks), operation_mapping)

\* variant of the comprehension: the prefix is tested without the dot
RECURSIVE CandidatesNoDot(_, _)
CandidatesNoDot(ks, operation_mapping) ==
    IF ks = <<>> THEN <<>>
    ELSE (IF StartsWith(operation_mapping, Head(ks))
          THEN <<Head(ks)>> ELSE <<>>)
         \o CandidatesNoDot(Tail(ks), operation_mapping)

\* the list comprehension: the names p of ks that operation_mapping
\* starts with '{0}.'.format(p), in the order of ks
RECURSIVE Candidates(_, _)
Candidates(ks, operation_mapping) ==
    IF ks = <<>> THEN <<>>
    ELSE (IF StartsWith(operation_mapping, Head(ks) \o <<".">>)
          THEN <<Head(ks)>> ELSE <<>>)
         \o Candidates(Tail(ks), operation_mapping)

\* str() of a list of strings
RECURSIVE ListItems(_)
ListItems(l) ==
    IF l = <<>> THEN <<>>
    ELSE <<"'">> \o Head(l) \o <<"'">>
         \o (IF Tail(l) = <<>> THEN <<>> ELSE <<", ">>)
         \o ListItems(Tail(l))

ListRepr(l) == <<"[">> \o ListItems(l) \o <<"]">>

KindWord(is_workflows) == IF is_workflows THEN <<"workflow">> ELSE <<"operation">>

\* variant of the empty-mapping branch: is_workflows is not looked at
EmptyMappingNoWorkflowCheck(h, operation_name, is_workflows) ==
    LET inputs == Alloc(h, EmptyDict)
    IN  [result |-> Return(_operation(operation_name, <<>>, <<>>,
                                      inputs.ref, LOCAL_AGENT, None, None)),
         heap |-> inputs.heap]

\* process_operation, `if not operation_mapping': the workflow error or
\* the no-op descriptor
EmptyMapping(h, operation_name, is_workflows) ==
    IF is_workflows
    THEN [result |-> Raise(RuntimeError(
              <<"Illegal state. workflow mapping should always",
                "be defined (enforced by schema validation)">>)),
          heap |-> h]
    ELSE LET inputs == Alloc(h, EmptyDict)
         IN  [result |-> Return(_operation(operation_name, <<>>, <<>>,
                                           inputs.ref, LOCAL_AGENT, None, None)),
              heap |-> inputs.heap]

\* process_operation, `if candidate_plugins': the ambiguity error or the
\* descriptor bound to the one candidate
PluginQualified(h, reg, operation_name, candidate_plugins, operation_mapping, operation_payload, operation_executor, operation_max_retries, operation_retry_interval, is_workflows) ==
    IF Len(candidate_plugins) > 1
    THEN [result |-> Raise(DSLParsingLogicException(
              91,
              <<"Ambiguous operation mapping. [operation=">> \o operation_name
                  \o <<", plugins=">> \o ListRepr(candidate_plugins) \o <<"]">>)),
          heap |-> h]
    ELSE LET plugin_name == candidate_plugins[1]
             mapping == SliceFrom(operation_mapping, Len(plugin_name) + 1)
             plugin_executor == Get(reg[plugin_name], "executor")
             executor == IF operation_executor = <<>>
                         THEN (IF StrTruthy(plugin_executor)
                               THEN plugin_executor[1] ELSE LOCAL_AGENT)
                         ELSE operation_executor
         IN  IF is_workflows
             THEN [result |-> Return(_workflow_operation(
                       plugin_name, mapping, operation_payload)),
                   heap |-> h]
             ELSE [result |-> Return(_operation(
                       operation_name, plugin_name, mapping, operation_payload,
                       executor, operation_max_retries,
                       operation_retry_interval)),
                   heap |-> h]

\* process_operation, the `elif resource_base and _resource_exists' body:
\* the payload is copied, checked for the reserved key, and the script path
\* is injected into the copy
ScriptFallback(h, reg, operation_name, operation_mapping, operation_payload, operation_executor, operation_max_retries, operation_retry_interval, is_workflows) ==
    LET source == IF DictTruthy(h, operation_payload)
                  THEN [heap |-> h, ref |-> operation_payload]
                  ELSE Alloc(h, EmptyDict)
        copied == DeepCopy(source.heap, source.ref)
        r == copied.ref[1]
        script_path == operation_mapping
        injected == IF is_workflows
                    THEN [default |-> script_path,
                          description |-> <<"Workflow script executed by the script",
                                            " plugin">>]
                    ELSE script_path
        task == IF is_workflows THEN SCRIPT_PLUGIN_EXECUTE_WORKFLOW_TASK
                ELSE SCRIPT_PLUGIN_RUN_TASK
        updated == [copied.heap EXCEPT
                        ![r] = DictPut(@, SCRIPT_PATH_PROPERTY, injected)]
    IN
    IF SCRIPT_PATH_PROPERTY \in DOMAIN copied.heap[r]
    THEN [result |-> Raise(DSLParsingLogicException(
              60,
              <<"Cannot define '", SCRIPT_PATH_PROPERTY, "' property in '">>
                  \o operation_mapping \o <<"' for ">> \o KindWord(is_workflows)
                  \o <<" '">> \o operation_name \o <<"'">>)),
          heap |-> copied.heap]
    ELSE IF SCRIPT_PLUGIN_NAME \notin DOMAIN reg
    THEN [result |-> Raise(DSLParsingLogicException(
              61,
              <<"Script plugin is not defined but it is required for",
                " mapping '">> \o task \o <<"' of ">> \o KindWord(is_workflows)
                  \o <<" '">> \o operation_name \o <<"'">>)),
          heap |-> updated]
    ELSE IF is_workflows
    THEN [result |-> Return(_workflow_operation(
              SCRIPT_PLUGIN_NAME, task, copied.ref)),
          heap |-> updated]
    ELSE LET executor == IF operation_executor = <<>>
                         THEN reg[SCRIPT_PLUGIN_NAME]["executor"][1]
                         ELSE operation_executor
         IN  [result |-> Return(_operation(
                  operation_name, SCRIPT_PLUGIN_NAME, task, copied.ref,
                  executor, operation_max_retries, operation_retry_interval)),
              heap |-> updated]

\* process_operation, the final `else': the caller's error
Unresolved(h, operation_name, operation_mapping, error_code, partial_error_message, is_workflows) ==
    LET base_error_message ==
            <<"Could not extract plugin from ">> \o KindWord(is_workflows)
                \o <<" mapping '">> \o operation_mapping
                \o <<"', which is declared for ">> \o KindWord(is_workflows)
                \o <<" '">> \o operation_name \o <<"'. ">>
        error_message == base_error_message \o partial_error_message
    IN  [result |-> Raise(DSLParsingLogicException(error_code, error_message)),
         heap |-> h]

\* operation_content.get('executor') or constants.LOCAL_AGENT
DeclaredExecutor(operation_content) ==
    LET declared == Get(operation_content, "executor")
    IN  IF StrTruthy(declared) THEN declared[1] ELSE LOCAL_AGENT

\* process_operation: the outcome (`result') and the heap after the call
process_operation(h, reg, operation_name, operation_content, error_code, partial_error_message, resource_base, is_workflows) ==
    LET payload_field_name == IF is_workflows THEN "parameters" ELSE "inputs"
        mapping_field_name == IF is_workflows THEN "mapping" ELSE "implementation"
        operation_mapping == operation_content[mapping_field_name]
        operation_payload == operation_content[payload_field_name]
        operation_executor == DeclaredExecutor(operation_content)
        operation_max_retries == Get(operation_content, "max_retries")
        operation_retry_interval == Get(operation_content, "retry_interval")
        candidate_plugins == Candidates(Keys(reg), operation_mapping)
    IN
    IF operation_mapping = <<>>
    THEN EmptyMapping(h, operation_name, is_workflows)
    ELSE IF candidate_plugins /= <<>>
    THEN PluginQualified(h, reg, operation_name, candidate_plugins,
                         operation_mapping, operation_payload, operation_executor,
                         operation_max_retries, operation_retry_interval,
                         is_workflows)
    ELSE IF resource_base /= <<>> /\ _resource_exists(resource_base, operation_mapping)
    THEN ScriptFallback(h, reg, operation_name, operation_mapping,
                        operation_payload, operation_executor,
                        operation_max_retries, operation_retry_interval,
                        is_workflows)
    ELSE Unresolved(h, operation_name, operation_mapping, error_code,
                    partial_error_message, is_workflows)

----------------------------------------------------------------------------
(* The inputs enumerated *)

Alphabet == {"a", "."}

\* every string over Alphabet of length at most n
RECURSIVE Strings(_)
Strings(n) ==
    IF n = 0 THEN {<<>>}
    ELSE LET shorter == Strings(n - 1)
         IN  shorter \cup {Append(t, c) : t \in {u \in shorter : Len(u) = n - 1},
                                          c \in Alphabet}

PluginNames == {<<"a">>, <<"a", ".", "a">>, SCRIPT_PLUGIN_NAME}

CENTRAL_AGENT == <<"central_deployment_agent">>

PluginDicts == {EmptyDict, [executor |-> Some(CENTRAL_AGENT)]}

Registries == UNION {[S -> PluginDicts] : S \in SUBSET PluginNames}

Mappings == Strings(MaxLen) \cup {SCRIPT_PLUGIN_NAME \o <<".", "a">>}

ResourceBase == <<"file:///blueprint">>

ResourceBases == {<<>>, ResourceBase}

ScriptNames == {<<>>, <<"a", ".", "a">>, <<"a", ".", "a", ".", "a">>}

ResourceSets == SUBSET {ResourceBase \o <<"/">> \o m : m \in ScriptNames}

UserDict == [port |-> <<"8080">>]

ReservedDict == [script_path |-> <<"x", ".", "s", "h">>]

\* the heaps a single declaration's payload can come from: no payload
\* object (None), or one dict object
PayloadHeaps == {<<>>, <<EmptyDict>>, <<UserDict>>, <<ReservedDict>>}

PayloadRef(h) == IF h = <<>> THEN None ELSE Some(1)

DeclaredExecutors == {None, Some(LOCAL_AGENT), Some(CENTRAL_AGENT)}

DeclaredRetries == {<<None, None>>, <<Some(MaxRetry), Some(1)>>}

OperationContents(h, ms) ==
    {[implementation |-> m, inputs |-> PayloadRef(h), executor |-> e,
      max_retries |-> r[1], retry_interval |-> r[2]] :
        m \in ms, e \in DeclaredExecutors, r \in DeclaredRetries}

WorkflowContents(h, ms) ==
    {[mapping |-> m, parameters |-> PayloadRef(h)] : m \in ms}

\* the code the caller passes: one for node operations, one for workflows
ErrorCodeFor(is_workflows) == IF is_workflows THEN 21 ELSE 10

PartialErrorMessage == <<"Parent type: ", "t">>

OperationName == <<"create">>

ProcessOperationCalls(h) ==
    {[fn |-> "process_operation", operation_name |-> OperationName,
      operation_content |-> c, error_code |-> ErrorCodeFor(FALSE),
      partial_error_message |-> PartialErrorMessage,
      resource_base |-> rb, is_workflows |-> FALSE] :
        c \in OperationContents(h, Mappings), rb \in ResourceBases}
    \cup
    {[fn |-> "process_operation", operation_name |-> OperationName,
      operation_content |-> c, error_code |-> ErrorCodeFor(TRUE),
      partial_error_message |-> PartialErrorMessage,
      resource_base |-> rb, is_workflows |-> TRUE] :
        c \in WorkflowContents(h, Mappings), rb \in ResourceBases}

\* process_interface_operations: the payload objects the declarations of
\* an interface refer to (two declarations may share one object)
InterfaceHeap == <<EmptyDict, ReservedDict>>

InterfaceMappings ==
    {<<>>, <<"a", "a">>, <<"a", ".", "a">>, <<"a", ".", "a", ".", "a">>}

InterfaceContents ==
    {[implementation |-> m, inputs |-> Some(r), executor |-> None,
      max_retries |-> None, retry_interval |-> None] :
        m \in InterfaceMappings, r \in 1..Len(InterfaceHeap)}

OperationNames == {<<"create">>, <<"start">>, <<"stop">>}

\* interface.items(): (name, declaration) pairs with distinct names
Interfaces ==
    UNION {{s \in [1..n -> OperationNames \X InterfaceContents] :
               \A i, j \in 1..n : i /= j => s[i][1] /= s[j][1]} : n \in 0..MaxOps}

InterfaceRegistries ==
    {reg \in Registries : \A p \in DOMAIN reg : reg[p] = EmptyDict}

ProcessInterfaceCalls ==
    {[fn |-> "process_interface_operations", interface |-> i,
      error_code |-> ErrorCodeFor(FALSE),
      partial_error_message |-> PartialErrorMessage,
      resource_base |-> ResourceBase] : i \in Interfaces}

Versions == {<<1, 0>>, <<1, 1>>, <<1, 2>>, <<2, 0>>}

RetryValues == {None} \cup {Some(v) : v \in (0 - MaxRetry - 1)..MaxRetry}

ValidatorCalls ==
    {[fn |-> f, name |-> n, initial_value |-> v, version |-> ver,
      validate_version |-> g] :
        f \in {"OperationMaxRetries.validate"}, n \in {<<"max_retries">>},
        v \in RetryValues, ver \in Versions, g \in BOOLEAN}
    \cup
    {[fn |-> f, name |-> n, initial_value |-> v, version |-> ver,
      validate_version |-> g] :
        f \in {"OperationRetryInterval.validate"}, n \in {<<"retry_interval">>},
        v \in RetryValues, ver \in Versions, g \in BOOLEAN}
    \cup
    {[fn |-> "OperationExecutor.validate", initial_value |-> v,
      interface_name |-> <<"lifecycle">>, operation_name |-> n] :
        v \in DeclaredExecutors \cup {Some(<<>>)}, n \in OperationNames}

----------------------------------------------------------------------------
(* The state machine: one call per behaviour *)

Init ==
    /\ pc = "ready"
    /\ idx = 1
    /\ acc = <<>>
    /\ result = NoResult
    /\ \/ /\ heap \in PayloadHeaps
          /\ call \in ProcessOperationCalls(heap)
          /\ plugins \in Registries
          /\ resources \in ResourceSets
       \/ /\ heap = InterfaceHeap
          /\ call \in ProcessInterfaceCalls
          /\ plugins \in InterfaceRegistries
          /\ resources \in ResourceSets
       \/ /\ heap = <<>>
          /\ call \in ValidatorCalls
          /\ plugins = EmptyDict
          /\ resources = {}

\* a call of process_operation
ProcessOperation ==
    /\ pc = "ready"
    /\ call.fn = "process_operation"
    /\ LET out == process_operation(heap, plugins, call.operation_name,
                                    call.operation_content, call.error_code,
                                    call.partial_error_message,
                                    call.resource_base, call.is_workflows)
       IN  /\ result' = out.result
           /\ heap' = out.heap
    /\ pc' = "done"
    /\ UNCHANGED <<call, plugins, resources, idx, acc>>

\* variant of the iteration: a declaration that fails to resolve is skipped
InterfaceStepSkipFailed ==
    /\ pc = "ready"
    /\ call.fn = "process_interface_operations"
    /\ idx <= Len(call.interface)
    /\ LET item == call.interface[idx]
           out == process_operation(heap, plugins, item[1], item[2],
                                    call.error_code, call.partial_error_message,
                                    call.resource_base, FALSE)
       IN  /\ heap' = out.heap
           /\ acc' = IF out.result.tag = "raise" THEN acc
                     ELSE Append(acc, out.result.value)
           /\ idx' = idx + 1
           /\ UNCHANGED <<result, pc>>
    /\ UNCHANGED <<call, plugins, resources>>

\* process_interface_operations: one iteration of the list comprehension
\* over interface.items(); an exception ends the call
InterfaceStep ==
    /\ pc = "ready"
    /\ call.fn = "process_interface_operations"
    /\ idx <= Len(call.interface)
    /\ LET item == call.interface[idx]
           out == process_operation(heap, plugins, item[1], item[2],
                                    call.error_code, call.partial_error_message,
                                    call.resource_base, FALSE)
       IN  /\ heap' = out.heap
           /\ IF out.result.tag = "raise"
              THEN /\ result' = out.result
                   /\ pc' = "done"
                   /\ UNCHANGED <<idx, acc>>
              ELSE /\ acc' = Append(acc, out.result.value)
                   /\ idx' = idx + 1
                   /\ UNCHANGED <<result, pc>>
    /\ UNCHANGED <<call, plugins, resources>>

\* process_interface_operations: the comprehension is exhausted, the list
\* is returned
InterfaceReturn ==
    /\ pc = "ready"
    /\ call.fn = "process_interface_operations"
    /\ idx > Len(call.interface)
    /\ result' = Return(acc)
    /\ pc' = "done"
    /\ UNCHANGED <<call, plugins, resources, heap, idx, acc>>

ValidateMaxRetries ==
    /\ pc = "ready"
    /\ call.fn = "OperationMaxRetries.validate"
    /\ result' = OperationMaxRetries_validate(call.name, call.initial_value,
                                              call.version, call.validate_version)
    /\ pc' = "done"
    /\ UNCHANGED <<call, plugins, resources, heap, idx, acc>>

ValidateRetryInterval ==
    /\ pc = "ready"
    /\ call.fn = "OperationRetryInterval.validate"
    /\ result' = OperationRetryInterval_validate(call.name, call.initial_value,
                                                 call.version, call.validate_version)
    /\ pc' = "done"
    /\ UNCHANGED <<call, plugins, resources, heap, idx, acc>>

ValidateExecutor ==
    /\ pc = "ready"
    /\ call.fn = "OperationExecutor.validate"
    /\ result' = OperationExecutor_validate(call.initial_value, call.interface_name,
                                            call.operation_name)
    /\ pc' = "done"
    /\ UNCHANGED <<call, plugins, resources, heap, idx, acc>>

Next ==
    \/ ProcessOperation
    \/ InterfaceStep
    \/ InterfaceReturn
    \/ ValidateMaxRetries
    \/ ValidateRetryInterval
    \/ ValidateExecutor

Spec == Init /\ [][Next]_vars

----------------------------------------------------------------------------
(* Vocabulary of the properties *)

Done == pc = "done"

IsOperationCall == call.fn = "process_operation"

\* the mapping string of the declaration of a process_operation call
DeclaredMapping ==
    IF call.is_workflows THEN call.operation_content.mapping
    ELSE call.operation_content.implementation

\* the payload reference of the declaration of a process_operation call
DeclaredPayload ==
    IF call.is_workflows THEN call.operation_content.parameters
    ELSE call.operation_content.inputs

\* the registered plugin names P such that the mapping starts with 'P.'
Matching ==
    {P \in DOMAIN plugins :
        /\ Len(DeclaredMapping) >= Len(P) + 1
        /\ \A i \in 1..Len(P) : DeclaredMapping[i] = P[i]
        /\ DeclaredMapping[Len(P) + 1] = "."}

\* a resource base was supplied and the resource at resource_base/mapping exists
ResourceThere ==
    /\ call.resource_base /= <<>>
    /\ (call.resource_base \o <<"/">> \o DeclaredMapping) \in resources

Raised == result.tag = "raise"

Returned == result.tag = "return"

RaisedCode(code) ==
    /\ Raised
    /\ result.exc.kind = "DSLParsingLogicException"
    /\ result.exc.code = code

----------------------------------------------------------------------------
(* C1: for a non-workflow call whose non-empty mapping is matched by       *)
(* exactly one registered plugin P, the executor of the descriptor is the  *)
(* declared executor if there is one, else the executor plugin P carries   *)
(* in the registry if it has one, else local-agent.                        *)
C1_ExecutorFallsBackToPluginDefault ==
    (/\ Done
     /\ IsOperationCall
     /\ ~call.is_workflows
     /\ DeclaredMapping /= <<>>
     /\ Cardinality(Matching) = 1)
    => LET P == CHOOSE p \in Matching : TRUE
           declared == call.operation_content.executor
           expected == IF declared /= None THEN declared[1]
                       ELSE IF "executor" \in DOMAIN plugins[P]
                       THEN plugins[P].executor[1]
                       ELSE LOCAL_AGENT
       IN  Returned /\ result.value.executor = expected

(* C2: whenever two or more registered plugin names prefix a non-empty     *)
(* mapping as 'P.', for operations and workflows, with or without a script *)
(* resource at resource_base/mapping, the call raises error 91 whose       *)
(* message names the operation and every candidate.                        *)
C2_AmbiguousMappingRaises ==
    (/\ Done
     /\ IsOperationCall
     /\ DeclaredMapping /= <<>>
     /\ Cardinality(Matching) >= 2)
    => /\ RaisedCode(91)
       /\ Contains(result.exc.message, call.operation_name)
       /\ \A P \in Matching : Contains(result.exc.message, <<"'">> \o P \o <<"'">>)

C2_Witness ==
    /\ Done
    /\ IsOperationCall
    /\ call.is_workflows
    /\ DeclaredMapping /= <<>>
    /\ Cardinality(Matching) = 2
    /\ ResourceThere
    /\ SCRIPT_PLUGIN_NAME \in DOMAIN plugins
    /\ RaisedCode(91)

(* C5: with an empty mapping the outcome is fixed whatever the registry    *)
(* and the resources are: a workflow raises the internal-consistency error *)
(* (not the document error kind), an operation returns the no-op           *)
(* descriptor, whatever the declaration carries.                           *)
C5_EmptyMappingDecidedFirst ==
    (/\ Done
     /\ IsOperationCall
     /\ DeclaredMapping = <<>>)
    => IF call.is_workflows
       THEN /\ Raised
            /\ result.exc.kind = "RuntimeError"
       ELSE /\ Returned
            /\ result.value.plugin = <<>>
            /\ result.value.operation = <<>>
            /\ result.value.inputs /= None
            /\ heap[result.value.inputs[1]] = EmptyDict
            /\ result.value.executor = LOCAL_AGENT
            /\ result.value.max_retries = None
            /\ result.value.retry_interval = None

C5_Witness ==
    /\ Done
    /\ IsOperationCall
    /\ ~call.is_workflows
    /\ DeclaredMapping = <<>>
    /\ call.operation_content.executor = Some(CENTRAL_AGENT)
    /\ call.operation_content.max_retries /= None
    /\ DeclaredPayload /= None
    /\ heap[DeclaredPayload[1]] = UserDict
    /\ ResourceThere
    /\ DOMAIN plugins = PluginNames
    /\ Returned
    /\ result.value.plugin = <<>>

(* C6: with a non-empty mapping and no plugin prefix match, the call       *)
(* raises the unresolved-mapping error, with the caller's error_code and a *)
(* message ending with the caller's partial_error_message, exactly when    *)
(* no resource base was supplied or the resource does not exist.           *)
C6_UnresolvedIffNoResource ==
    (/\ Done
     /\ IsOperationCall
     /\ DeclaredMapping /= <<>>
     /\ Matching = {})
    => ((/\ RaisedCode(call.error_code)
         /\ Head(result.exc.message) = "Could not extract plugin from "
         /\ EndsWith(result.exc.message, call.partial_error_message))
        <=> ~ResourceThere)

C6_Witness ==
    /\ Done
    /\ IsOperationCall
    /\ DeclaredMapping = <<"a", ".", "a">>
    /\ Matching = {}
    /\ call.resource_base /= <<>>
    /\ ~ResourceThere
    /\ SCRIPT_PLUGIN_NAME \in DOMAIN plugins
    /\ RaisedCode(call.error_code)

(* C7: for both retry validators (bound -1 for max_retries, 0 for          *)
(* retry_interval): an undeclared value passes; a value below the bound    *)
(* fails for every version and gate; a value at or above the bound fails   *)
(* exactly when the gate is set and the version is below 1.1.              *)
C7_RetryValidators ==
    (/\ Done
     /\ call.fn \in {"OperationMaxRetries.validate",
                     "OperationRetryInterval.validate"})
    => LET bound == IF call.fn = "OperationMaxRetries.validate" THEN 0 - 1 ELSE 0
           v == call.initial_value
           old == call.version[1] < 1 \/ (call.version[1] = 1 /\ call.version[2] = 0)
       IN  /\ v = None => Returned
           /\ (v /= None /\ v[1] < bound) => Raised
           /\ (v /= None /\ v[1] >= bound)
                  => (Raised <=> (call.validate_version /\ old))

C7_Witness ==
    /\ Done
    /\ call.fn = "OperationMaxRetries.validate"
    /\ call.initial_value = Some(0 - 1)
    /\ ~call.validate_version
    /\ call.version = <<1, 0>>
    /\ Returned

(* C3: a successful script-resource fallback returns a descriptor bound to *)
(* the script plugin and the run-script (operations) or                    *)
(* execute-workflow-script (workflows) task, whose payload is the original *)
(* payload plus exactly one entry under the reserved key (the bare mapping *)
(* for operations, a default/description record for workflows), and the   *)
(* payload object of the caller's declaration is the same after the call.  *)
C3_ScriptFallbackKeepsCallerPayload ==
    [][(/\ pc = "ready"
        /\ pc' = "done"
        /\ IsOperationCall
        /\ DeclaredMapping /= <<>>
        /\ Matching = {}
        /\ ResourceThere
        /\ SCRIPT_PLUGIN_NAME \in DOMAIN plugins
        /\ (DeclaredPayload /= None
               => SCRIPT_PATH_PROPERTY \notin DOMAIN heap[DeclaredPayload[1]]))
       => LET original == IF DeclaredPayload = None THEN EmptyDict
                          ELSE heap[DeclaredPayload[1]]
              desc == result'.value
              out == IF call.is_workflows THEN desc.parameters ELSE desc.inputs
              entry == IF call.is_workflows
                       THEN [default |-> DeclaredMapping,
                             description |-> <<"Workflow script executed by the script",
                                               " plugin">>]
                       ELSE DeclaredMapping
          IN  /\ Returned'
              /\ desc.plugin = SCRIPT_PLUGIN_NAME
              /\ desc.operation = (IF call.is_workflows
                                   THEN SCRIPT_PLUGIN_EXECUTE_WORKFLOW_TASK
                                   ELSE SCRIPT_PLUGIN_RUN_TASK)
              /\ out /= None
              /\ DOMAIN heap'[out[1]] = (DOMAIN original) \cup {SCRIPT_PATH_PROPERTY}
              /\ \A k \in DOMAIN original : heap'[out[1]][k] = original[k]
              /\ heap'[out[1]][SCRIPT_PATH_PROPERTY] = entry
              /\ call' = call
              /\ DeclaredPayload /= None
                    => heap'[DeclaredPayload[1]] = heap[DeclaredPayload[1]]
      ]_vars

C3_Witness ==
    /\ Done
    /\ IsOperationCall
    /\ ~call.is_workflows
    /\ DeclaredMapping = <<"a", ".", "a">>
    /\ Matching = {}
    /\ ResourceThere
    /\ DeclaredPayload /= None
    /\ heap[DeclaredPayload[1]] = UserDict
    /\ Returned
    /\ result.value.plugin = SCRIPT_PLUGIN_NAME
    /\ result.value.operation = SCRIPT_PLUGIN_RUN_TASK
    /\ heap[result.value.inputs[1]] = [port |-> <<"8080">>,
                                       script_path |-> <<"a", ".", "a">>]

(* C4: in the script-resource fallback, a payload that already has the     *)
(* reserved key raises error 60, registered script plugin or not;          *)
(* otherwise a missing script plugin raises error 61; in both cases        *)
(* nothing is returned and the caller's payload is left as it was.         *)
C4_ScriptFallbackErrors ==
    [][(/\ pc = "ready"
        /\ pc' = "done"
        /\ IsOperationCall
        /\ DeclaredMapping /= <<>>
        /\ Matching = {}
        /\ ResourceThere)
       => LET original == IF DeclaredPayload = None THEN EmptyDict
                          ELSE heap[DeclaredPayload[1]]
              collides == SCRIPT_PATH_PROPERTY \in DOMAIN original
              noScript == SCRIPT_PLUGIN_NAME \notin DOMAIN plugins
          IN  /\ collides => RaisedCode(60)'
              /\ (~collides /\ noScript) => RaisedCode(61)'
              /\ (collides \/ noScript)
                    => /\ Raised'
                       /\ call' = call
                       /\ DeclaredPayload /= None
                             => heap'[DeclaredPayload[1]] = original
      ]_vars

C4_Witness ==
    /\ Done
    /\ IsOperationCall
    /\ DeclaredMapping /= <<>>
    /\ Matching = {}
    /\ ResourceThere
    /\ SCRIPT_PLUGIN_NAME \notin DOMAIN plugins
    /\ DeclaredPayload /= None
    /\ heap[DeclaredPayload[1]] = ReservedDict
    /\ RaisedCode(60)

\* the retry validators: the value is below its bound and the version gate
\* does not fire, so the bound check is what raises
IsBoundError ==
    /\ call.fn \in {"OperationMaxRetries.validate", "OperationRetryInterval.validate"}
    /\ call.initial_value /= None
    /\ call.initial_value[1] <
           (IF call.fn = "OperationMaxRetries.validate" THEN 0 - 1 ELSE 0)
    /\ ~(call.validate_version
           /\ (call.version[1] < 1 \/ (call.version[1] = 1 /\ call.version[2] = 0)))

\* the calls that raise document errors
IsDocumentCall ==
    call.fn \in {"process_operation", "process_interface_operations",
                 "OperationExecutor.validate"}

IsWorkflowEmptyMapping ==
    /\ IsOperationCall
    /\ call.is_workflows
    /\ DeclaredMapping = <<>>

IsStructured(exc) ==
    /\ exc.kind = "DSLParsingLogicException"
    /\ "code" \in DOMAIN exc
    /\ exc.code \in Nat
    /\ "message" \in DOMAIN exc

(* C8 as stated: every document error and every bound error is of the one  *)
(* structured kind with a numeric code and a message; only the             *)
(* workflow-with-empty-mapping error is of another kind.                   *)
C8_AllErrorsOneStructuredKind ==
    (Done /\ Raised)
    => IF IsWorkflowEmptyMapping THEN ~IsStructured(result.exc)
       ELSE (IsDocumentCall \/ IsBoundError) => IsStructured(result.exc)

(* C8 amended: every document error is of the one structured kind with a   *)
(* numeric code and a message; the bound errors of the retry validators    *)
(* are of a second kind (a value error) with a message and no code; the    *)
(* workflow-with-empty-mapping error is of a third kind.                   *)
C8_ErrorKinds ==
    (Done /\ Raised)
    => IF IsWorkflowEmptyMapping
       THEN result.exc.kind = "RuntimeError"
       ELSE IF IsDocumentCall
       THEN IsStructured(result.exc)
       ELSE IsBoundError
               => /\ result.exc.kind = "ValueError"
                  /\ "code" \notin DOMAIN result.exc
                  /\ "message" \in DOMAIN result.exc

C8_Witness ==
    /\ Done
    /\ call.fn = "OperationRetryInterval.validate"
    /\ call.initial_value = Some(0 - 1)
    /\ call.validate_version
    /\ call.version = <<1, 1>>
    /\ Raised
    /\ result.exc.kind = "ValueError"

\* a descriptor with its inputs reference replaced by the dict it refers to
Deref(h, desc) == [desc EXCEPT !.inputs = IF @ = None THEN None ELSE Some(h[@[1]])]

(* C9: process_interface_operations returns one descriptor per declared    *)
(* operation, in the order of the interface, the i-th equal to             *)
(* process_operation of the i-th (name, declaration) pair with             *)
(* is_workflows = false; if some operation fails to resolve the call fails *)
(* with the error of the first failing one and returns no list.            *)
C9_InterfaceOperations ==
    (Done /\ call.fn = "process_interface_operations")
    => LET items == call.interface
           n == Len(items)
           single(i) == process_operation(InterfaceHeap, plugins, items[i][1],
                                          items[i][2], call.error_code,
                                          call.partial_error_message,
                                          call.resource_base, FALSE)
           failing == {i \in 1..n : single(i).result.tag = "raise"}
       IN  IF failing = {}
           THEN /\ Returned
                /\ Len(result.value) = n
                /\ \A i \in 1..n :
                      /\ result.value[i].name = items[i][1]
                      /\ Deref(heap, result.value[i])
                            = Deref(single(i).heap, single(i).result.value)
           ELSE LET first == CHOOSE i \in failing : \A j \in failing : i <= j
                IN  result = single(first).result

C9_Witness ==
    /\ Done
    /\ call.fn = "process_interface_operations"
    /\ Len(call.interface) = 2
    /\ call.interface[1][2].inputs = call.interface[2][2].inputs
    /\ call.interface[1][1] = <<"start">>
    /\ call.interface[2][1] = <<"create">>
    /\ Returned
    /\ Len(result.value) = 2
    /\ result.value[1].plugin = SCRIPT_PLUGIN_NAME
    /\ result.value[2].plugin = SCRIPT_PLUGIN_NAME
    /\ result.value[1].name = <<"start">>

(* C10: a call ends in exactly one of: no-op descriptor (only with an      *)
(* empty mapping), plugin-qualified descriptor, script-fallback            *)
(* descriptor, error.  With exactly one plugin prefix match the result is  *)
(* bound to that plugin, with the prefix stripped and the payload          *)
(* untouched, even if a script resource exists and the script plugin is    *)
(* registered; the script fallback happens only with zero matches.         *)
C10_OneResolutionPath ==
    [][(/\ pc = "ready"
        /\ pc' = "done"
        /\ IsOperationCall)
       => LET r == result'
              m == DeclaredMapping
              ref == IF call.is_workflows THEN r.value.parameters
                     ELSE r.value.inputs
              noop == /\ r.tag = "return"
                      /\ ~call.is_workflows
                      /\ r.value.plugin = <<>>
                      /\ r.value.operation = <<>>
              plug == /\ r.tag = "return"
                      /\ r.value.plugin \in Matching
                      /\ r.value.operation
                            = SubSeq(m, Len(r.value.plugin) + 2, Len(m))
                      /\ ref = DeclaredPayload
                      /\ heap' = heap
              script == /\ r.tag = "return"
                        /\ r.value.plugin = SCRIPT_PLUGIN_NAME
                        /\ r.value.operation \in
                              {SCRIPT_PLUGIN_RUN_TASK,
                               SCRIPT_PLUGIN_EXECUTE_WORKFLOW_TASK}
                        /\ ref /= None
                        /\ ref /= DeclaredPayload
                        /\ SCRIPT_PATH_PROPERTY \in DOMAIN heap'[ref[1]]
              err == r.tag = "raise"
              paths == <<noop, plug, script, err>>
          IN  /\ Cardinality({i \in 1..4 : paths[i]}) = 1
              /\ noop => m = <<>>
              /\ (m /= <<>> /\ Cardinality(Matching) = 1) => plug
              /\ script => (Matching = {} /\ ResourceThere)
      ]_vars

C10_Witness ==
    /\ Done
    /\ IsOperationCall
    /\ DeclaredMapping = <<"a", ".", "a">>
    /\ Matching = {<<"a">>}
    /\ ResourceThere
    /\ SCRIPT_PLUGIN_NAME \in DOMAIN plugins
    /\ DeclaredPayload /= None
    /\ heap = <<UserDict>>
    /\ Returned
    /\ result.value.plugin = <<"a">>
    /\ result.value.operation = <<"a">>

====
